---- MODULE Spec2Model ----
(***************************************************************************)
(* State-machine model of quest.py ("Тайны Подземелья"): the board of      *)
(* typed fields, the players, the turn / round loop of Game, the fire      *)
(* draw and the save / load transfer through save.json.                    *)
(*                                                                         *)
(* Positions are (row, col) pairs, 0-based as in the source.  A player is  *)
(* identified by the order in which its object was created in the running  *)
(* process (1, 2, ...); its name is a separate field, as in the source.    *)
(* Lists whose order only shows in log text or in the order of a JSON      *)
(* array (Board.burning_fields) are sets; Field.players stays a list.      *)
(***************************************************************************)
EXTENDS Integers, Sequences, FiniteSets, TLC

\* ------------------------------------------------------------------ bounds
\* most heroes a new game is created with (the answer read by creating_players)
MaxPlayers == 2
\* most end_of_round calls followed in one behaviour
MaxRounds == 2
\* the same, for games played to their end
MaxRoundsLive == 40
\* the same, where the fire is drawn from every possible draw
MaxRoundsAllDraws == 1

\* --------------------------------------------------------------- constants
MAX_HEALTH == 5
NUMBER_OF_MEDICINE == 3
\* size=4 of the draw in Board.burn
BURN_SIZE == 4

ORIGINAL_BOARD ==
    << <<"e", "e", "e", "e", "e", "w", "w", "w", "w", "e">>,
       <<"e", "e", "e", "w", "w", "a", "f", "f", "g", "w">>,
       <<"e", "e", "w", "f", "w", "w", "f", "w", "w", "e">>,
       <<"e", "w", "f", "f", "f", "w", "f", "a", "w", "e">>,
       <<"w", "f", "f", "w", "f", "f", "f", "w", "e", "e">>,
       <<"e", "w", "w", "e", "w", "w", "w", "e", "e", "e">> >>

ORANGE_FIELDS == { <<2, 3>>, <<1, 5>>, <<3, 7>> }
START_FIELD == <<4, 1>>
KEY_FIELD == <<2, 3>>

\* None, for a field reference (Player._current_field, Board.key_location)
NoField == << >>

Height == Len(ORIGINAL_BOARD)
Width == Len(ORIGINAL_BOARD[1])
Positions == (0 .. Height - 1) \X (0 .. Width - 1)

\* the letter of the template at a position, i.e. the class of the field object
Symbol(pos) == ORIGINAL_BOARD[pos[1] + 1][pos[2] + 1]

\* variant: a Wall can be entered like any field
IsAvailableAll(pos) == TRUE

\* Field.is_available as set by the constructors: only Wall passes False
IsAvailable(pos) == Symbol(pos) # "w"

\* Field.is_white after create_board: False for Wall and EmptySpace, and for
\* the positions of orange_fields
IsWhite(pos) == Symbol(pos) \notin {"w", "e"} /\ pos \notin ORANGE_FIELDS

WhiteFields == {pos \in Positions : IsWhite(pos)}

\* move_directions of Game.turn
MoveDirections ==
    [up |-> <<-1, 0>>, down |-> <<1, 0>>, left |-> <<0, -1>>, right |-> <<0, 1>>]

Directions == DOMAIN MoveDirections

\* numpy indexing of one axis of size n: -n .. n-1 is accepted, a negative
\* index counts from the end, anything else raises IndexError
IndexOk(i, n) == -n <= i /\ i < n
WrapIndex(i, n) == IF i < 0 THEN i + n ELSE i

VARIABLES
    pc,              \* where the process is: creating_game, turn, end_of_round, done, exited, crashed
    players,         \* Game.players, the roster (list of player ids)
    player,          \* the Player objects: id -> fields
    snapshot,        \* self.players[:] taken by the for loop of Game.loop
    idx,             \* position of the for loop in snapshot
    field_players,   \* Field.players of every field
    field_has_key,   \* Field._has_key of every field
    is_fire,         \* Field.is_fire of every field
    key_location,    \* Board.key_location
    burning_fields,  \* Board.burning_fields
    save_file,       \* content of save.json: {} when missing or empty, else {snapshot}
    round,           \* number of end_of_round calls followed so far
    last_cmd,        \* history: the command just applied in the running turn
    last_target,     \* history: the field that command moved onto, if it was a move
    saver,           \* history: name of the hero whose save no command has followed yet, else 0
    left_orange      \* history: name -> orange fields the hero stood on and left

vars == <<pc, players, player, snapshot, idx, field_players, field_has_key,
          is_fire, key_location, burning_fields, save_file, round, last_cmd,
          last_target, saver, left_orange>>

\* ----------------------------------------------------------------- Player
\* Player.__init__ before the current_field setter runs
NewPlayer(name, previous_fields, health, number_of_actions, number_of_medicine, has_key) ==
    [name |-> name,
     health |-> health,
     previous_fields |-> previous_fields,
     current_field |-> NoField,
     number_of_actions |-> number_of_actions,
     number_of_medicine |-> number_of_medicine,
     has_key |-> has_key,
     is_win |-> FALSE,
     is_escaped |-> FALSE]

IsAlive(pl, p) == pl[p].health > 0

\* variant: being hurt costs nothing
HurtNever(pl, p) == pl

Hurt(pl, p) == [pl EXCEPT ![p].health = @ - 1]

Die(pl, p) == [pl EXCEPT ![p].health = 0]

FullRecovery(pl, p) == [pl EXCEPT ![p].health = MAX_HEALTH]

SpendAction(pl, p) == [pl EXCEPT ![p].number_of_actions = @ - 1]

Min(a, b) == IF a < b THEN a ELSE b

\* remove the first occurrence of x from the list s (list.remove)
RECURSIVE Remove(_, _)
Remove(s, x) ==
    IF s = << >> THEN << >>
    ELSE IF Head(s) = x THEN Tail(s)
    ELSE <<Head(s)>> \o Remove(Tail(s), x)

Contains(s, x) == \E i \in 1 .. Len(s) : s[i] = x

\* ------------------------------------------------------------------ Field
\* A world is the part of the state the movement code touches:
\* pl = the Player objects, fp = Field.players of every field.

\* variant: the player stays registered on the field it leaves
PlayerLeavesStay(fp, p, pos) == fp

\* Field.player_leaves
PlayerLeaves(fp, p, pos) == [fp EXCEPT ![pos] = Remove(@, p)]

\* Field.effect_on_player: fire damage
FieldEffect(pl, p, pos, fire) == IF fire[pos] THEN Hurt(pl, p) ELSE pl

\* Altar.effect_on_player: the base effect, then full recovery
AltarEffect(pl, p, pos, fire) == FullRecovery(FieldEffect(pl, p, pos, fire), p)

\* variant: the Golem resolves before the fire of its field is applied
GolemEffectFireLast(pl, p, pos, fire) ==
    IF pl[p].has_key
    THEN FieldEffect(FieldEffect([pl EXCEPT ![p].is_win = TRUE], p, pos, fire), p, pos, fire)
    ELSE FieldEffect(Die(pl, p), p, pos, fire)

\* Golem.effect_on_player: the base effect, then win with the key, else death
GolemEffect(pl, p, pos, fire) ==
    LET burnt == FieldEffect(pl, p, pos, fire)
    IN  IF burnt[p].has_key
        THEN [burnt EXCEPT ![p].is_win = TRUE]
        ELSE Die(burnt, p)

\* dispatch of effect_on_player on the class of the field
EffectOnPlayer(pl, p, pos, fire) ==
    CASE Symbol(pos) = "a" -> AltarEffect(pl, p, pos, fire)
      [] Symbol(pos) = "g" -> GolemEffect(pl, p, pos, fire)
      [] OTHER -> FieldEffect(pl, p, pos, fire)

\* variant: the wall turns the player back without hurting it
WallEntersHarmless(w, p) == w

\* Wall.player_enters: damage, nothing else
WallEnters(w, p) == [w EXCEPT !.pl = Hurt(w.pl, p)]

\* Field.player_enters: on a move (the player has a current field) the old
\* field is left and the effect applied; the player is appended in any case
FieldEnters(w, p, pos, fire) ==
    LET cur == w.pl[p].current_field
        moved == IF cur # NoField
                 THEN [pl |-> EffectOnPlayer(w.pl, p, pos, fire),
                       fp |-> PlayerLeaves(w.fp, p, cur)]
                 ELSE w
    IN  [moved EXCEPT !.fp[pos] = Append(@, p)]

\* dispatch of player_enters on the class of the field
PlayerEnters(w, p, pos, fire) ==
    IF Symbol(pos) = "w" THEN WallEnters(w, p) ELSE FieldEnters(w, p, pos, fire)

\* variant: only a white field counts as a retreat
IsRetreatWhiteOnly(pl, p, pos) ==
    Contains(pl[p].previous_fields, pos) /\ IsWhite(pos)

\* the test `field in self.previous_fields` of the current_field setter
IsRetreat(pl, p, pos) == Contains(pl[p].previous_fields, pos)

\* variant: an orange field that is left is not recorded
NextPreviousFieldsWhiteOnly(prev, cur, pos) ==
    IF cur # NoField /\ IsWhite(pos) /\ IsWhite(cur) THEN <<cur>> ELSE prev

\* the bookkeeping of previous_fields in the current_field setter, for a move
\* from cur onto the available field pos
NextPreviousFields(prev, cur, pos) ==
    IF cur # NoField /\ IsWhite(pos)
    THEN IF IsWhite(cur) THEN <<cur>> ELSE Append(prev, cur)
    ELSE prev

\* Player.current_field setter
SetCurrentField(w, p, pos, fire) ==
    IF IsRetreat(w.pl, p, pos)
    THEN [w EXCEPT !.pl = [Die(w.pl, p) EXCEPT ![p].is_escaped = TRUE]]
    ELSE LET entered == PlayerEnters(w, p, pos, fire)
             cur == w.pl[p].current_field
         IN  IF IsAvailable(pos)
             THEN [entered EXCEPT
                     !.pl[p].previous_fields = NextPreviousFields(@, cur, pos),
                     !.pl[p].current_field = pos]
             ELSE entered

\* Player.move
MovePlayer(w, p, pos, fire) ==
    LET set == SetCurrentField(w, p, pos, fire)
    IN  [set EXCEPT !.pl = SpendAction(set.pl, p)]

\* variant: only occupants that are still alive are hurt
RECURSIVE StrikeEachAlive(_, _, _)
StrikeEachAlive(pl, p, occupants) ==
    IF occupants = << >> THEN pl
    ELSE LET q == Head(occupants)
         IN  StrikeEachAlive(IF q # p /\ IsAlive(pl, q) THEN Hurt(pl, q) ELSE pl,
                             p, Tail(occupants))

\* the other players of Field.players, in list order, that strike() hurts
RECURSIVE StrikeEach(_, _, _)
StrikeEach(pl, p, occupants) ==
    IF occupants = << >> THEN pl
    ELSE LET q == Head(occupants)
         IN  StrikeEach(IF q # p THEN Hurt(pl, q) ELSE pl, p, Tail(occupants))

\* Player.strike_all_in_the_field
StrikeAllInTheField(pl, fp, p) ==
    LET here == fp[pl[p].current_field]
    IN  IF Len(here) > 1 THEN SpendAction(StrikeEach(pl, p, here), p) ELSE pl

\* variant: a heal without medicine still costs the action
HealPlayerAlwaysSpends(pl, p) ==
    IF pl[p].number_of_medicine > 0
    THEN SpendAction([pl EXCEPT ![p].number_of_medicine = @ - 1,
                                ![p].health = Min(@ + 1, MAX_HEALTH)], p)
    ELSE SpendAction(pl, p)

\* Player.heal
HealPlayer(pl, p) ==
    IF pl[p].number_of_medicine > 0
    THEN SpendAction([pl EXCEPT ![p].number_of_medicine = @ - 1,
                                ![p].health = Min(@ + 1, MAX_HEALTH)], p)
    ELSE pl

\* ------------------------------------------------------------------- key
\* A key state is kl = Board.key_location and hk = Field._has_key of every field.

\* Field.has_key setter
SetHasKey(k, pos, value) ==
    [kl |-> IF value THEN pos ELSE NoField,
     hk |-> [k.hk EXCEPT ![pos] = value]]

\* the _has_key flags and key_location of a board that holds no key
NoKey == [kl |-> NoField, hk |-> [pos \in Positions |-> FALSE]]

\* variant: the key is taken through Board.key_location, not the field's setter
TakeKeyBypass(pl, k, p) ==
    LET cur == pl[p].current_field
    IN  IF k.hk[cur]
        THEN [pl |-> SpendAction([pl EXCEPT ![p].has_key = TRUE], p),
              k |-> [k EXCEPT !.kl = NoField]]
        ELSE [pl |-> pl, k |-> k]

\* Player.take_key, on the players and the key state
TakeKeyPlayer(pl, k, p) ==
    LET cur == pl[p].current_field
    IN  IF k.hk[cur]
        THEN [pl |-> SpendAction([pl EXCEPT ![p].has_key = TRUE], p),
              k |-> SetHasKey(k, cur, FALSE)]
        ELSE [pl |-> pl, k |-> k]

\* variant: the key goes back to where the game placed it
DropKeyHome(pl, k, p) ==
    IF pl[p].has_key
    THEN [pl |-> [pl EXCEPT ![p].has_key = FALSE],
          k |-> SetHasKey(k, KEY_FIELD, TRUE)]
    ELSE [pl |-> pl, k |-> k]

\* Player.drop_key
DropKey(pl, k, p) ==
    IF pl[p].has_key
    THEN [pl |-> [pl EXCEPT ![p].has_key = FALSE],
          k |-> SetHasKey(k, pl[p].current_field, TRUE)]
    ELSE [pl |-> pl, k |-> k]

\* ------------------------------------------------------------------ Board
\* the draws np.random.choice(white_fields, size=4, replace=False) can return
AllDraws == {S \in SUBSET WhiteFields : Cardinality(S) = BURN_SIZE}

\* the draws followed by the main specification: every white field burns in
\* one of them and is spared by another
SampleDraws ==
    { { <<4, 1>>, <<4, 2>>, <<3, 2>>, <<3, 3>> },
      { <<1, 8>>, <<1, 7>>, <<3, 4>>, <<3, 6>> },
      { <<1, 6>>, <<2, 6>>, <<4, 4>>, <<4, 5>> },
      { <<4, 6>>, <<1, 8>>, <<3, 3>>, <<4, 1>> } }

\* variant: the new draw is lit, the old fires are left burning
BurnAccumulate(fire, draw) ==
    [pos \in Positions |-> fire[pos] \/ pos \in draw]

\* Board.burn, the is_fire flags after the draw: only white fields are rewritten
Burn(fire, draw) ==
    [pos \in Positions |-> IF IsWhite(pos) THEN pos \in draw ELSE fire[pos]]

\* ------------------------------------------------------------------- JSON
\* A JSON value that may be null is a set: {} for null, {v} for the value v.

\* variant: only the most recent previous field is written (the single
\* previous-field form of the retreat rule)
PlayerToJsonSingle(r) ==
    [name |-> r.name,
     health |-> r.health,
     previous_fields |-> IF r.previous_fields # << >>
                         THEN {<<r.previous_fields[Len(r.previous_fields)]>>} ELSE {},
     current_field |-> r.current_field,
     number_of_actions |-> r.number_of_actions,
     number_of_medicine |-> r.number_of_medicine,
     has_key |-> r.has_key]

\* Player.to_json
PlayerToJson(r) ==
    [name |-> r.name,
     health |-> r.health,
     previous_fields |-> IF r.previous_fields # << >> THEN {r.previous_fields} ELSE {},
     current_field |-> r.current_field,
     number_of_actions |-> r.number_of_actions,
     number_of_medicine |-> r.number_of_medicine,
     has_key |-> r.has_key]

\* Board.to_json
BoardToJson(burning, kl) ==
    [burning_fields |-> burning,
     key_location |-> IF kl # NoField THEN {kl} ELSE {}]

\* json_obj of Game.save
GameToJson(roster, pl, burning, kl) ==
    [players |-> [i \in 1 .. Len(roster) |-> PlayerToJson(pl[roster[i]])],
     board |-> BoardToJson(burning, kl)]

\* Board.create_board: the key state of the new board
CreateKey(key_field) ==
    IF key_field # NoField THEN SetHasKey(NoKey, key_field, TRUE) ELSE NoKey

\* Board.create_board: the is_fire flags of the new board
CreateFire(burning) == [pos \in Positions |-> pos \in burning]

\* the Player object load_game builds from one entry of save['players']
PlayerFromJson(j) ==
    NewPlayer(j.name,
              IF j.previous_fields # {} THEN CHOOSE s \in j.previous_fields : TRUE ELSE << >>,
              j.health, j.number_of_actions, j.number_of_medicine, j.has_key)

\* the loop of load_game over save['players'], from entry i on: the object is
\* created, then the current_field setter places it
RECURSIVE LoadPlayers(_, _, _, _)
LoadPlayers(w, saved, i, fire) ==
    IF i > Len(saved) THEN w
    ELSE LET made == [w EXCEPT !.pl = (i :> PlayerFromJson(saved[i])) @@ @]
         IN  LoadPlayers(SetCurrentField(made, i, saved[i].current_field, fire),
                         saved, i + 1, fire)

EmptyWorld == [pl |-> << >>, fp |-> [pos \in Positions |-> << >>]]

\* Game.load_game: the whole game state rebuilt from a snapshot
LoadGameState(save) ==
    LET key_field == IF save.board.key_location # {}
                     THEN CHOOSE pos \in save.board.key_location : TRUE
                     ELSE NoField
        fire == CreateFire(save.board.burning_fields)
        w == LoadPlayers(EmptyWorld, save.players, 1, fire)
    IN  [players |-> [i \in 1 .. Len(save.players) |-> i],
         player |-> w.pl,
         field_players |-> w.fp,
         k |-> CreateKey(key_field),
         is_fire |-> fire,
         burning_fields |-> save.board.burning_fields]

\* the loop of creating_players, from hero i on: Player(name, START_FIELD)
RECURSIVE CreatePlayers(_, _, _)
CreatePlayers(w, i, n) ==
    IF i > n THEN w
    ELSE LET made == [w EXCEPT !.pl = (i :> NewPlayer(i, << >>, MAX_HEALTH, 1,
                                                     NUMBER_OF_MEDICINE, FALSE)) @@ @]
         IN  CreatePlayers(SetCurrentField(made, i, START_FIELD, CreateFire({})),
                           i + 1, n)

\* ------------------------------------------------------- snapshots on disk
\* One hero of a snapshot, as Player.to_json writes it.
Hero(name, health, previous, current, actions, medicine, has_key) ==
    [name |-> name, health |-> health,
     previous_fields |-> IF previous # << >> THEN {previous} ELSE {},
     current_field |-> current, number_of_actions |-> actions,
     number_of_medicine |-> medicine, has_key |-> has_key]

\* Snapshots a game started on the compiled-in map can have written, each
\* saved by its first hero at the start of a round, with the orange fields
\* its heroes have left so far.

\* the hero stands next to the key field after three moves and a wall hit
AtKeyDoor ==
    [save |-> [players |-> << Hero(1, 4, << <<3, 2>> >>, <<3, 3>>, 1, 3, FALSE) >>,
               board |-> [burning_fields |-> { <<1, 6>>, <<2, 6>>, <<4, 4>>, <<4, 5>> },
                          key_location |-> { <<2, 3>> }]],
     left |-> (1 :> {})]

\* the hero has picked the key up and still stands on the orange key field
KeyTaken ==
    [save |-> [players |-> << Hero(1, 4, << <<3, 2>> >>, <<2, 3>>, 1, 2, TRUE) >>,
               board |-> [burning_fields |-> { <<4, 1>>, <<4, 2>>, <<3, 2>>, <<3, 3>> },
                          key_location |-> {}]],
     left |-> (1 :> {})]

\* the hero carries the key past the orange altar at (3,7)
NearAltar ==
    [save |-> [players |-> << Hero(1, 2, << <<4, 6>> >>, <<3, 6>>, 1, 0, TRUE) >>,
               board |-> [burning_fields |-> { <<1, 8>>, <<1, 7>>, <<3, 4>>, <<3, 6>> },
                          key_location |-> {}]],
     left |-> (1 :> { <<2, 3>> })]

\* two heroes one step from the Golem, the first carries the key
BeforeGolem ==
    [save |-> [players |-> << Hero(1, 2, << <<1, 6>> >>, <<1, 7>>, 1, 0, TRUE),
                              Hero(2, 2, << <<1, 6>> >>, <<1, 7>>, 1, 0, FALSE) >>,
               board |-> [burning_fields |-> { <<1, 8>>, <<1, 7>>, <<3, 4>>, <<3, 6>> },
                          key_location |-> {}]],
     left |-> (1 :> { <<2, 3>> }) @@ (2 :> {})]

\* three heroes fighting on the start field
Brawl ==
    [save |-> [players |-> << Hero(1, 1, << >>, START_FIELD, 1, 0, FALSE),
                              Hero(2, 2, << >>, START_FIELD, 1, 0, FALSE),
                              Hero(3, 3, << >>, START_FIELD, 1, 0, FALSE) >>,
               board |-> [burning_fields |-> { <<1, 6>>, <<2, 6>>, <<4, 4>>, <<4, 5>> },
                          key_location |-> { KEY_FIELD }]],
     left |-> (1 :> {}) @@ (2 :> {}) @@ (3 :> {})]

InitialSaves == {AtKeyDoor, KeyTaken, NearAltar, BeforeGolem, Brawl}

\* ------------------------------------------------------------------- Game
\* the player whose turn is running
Actor == snapshot[idx]

\* the condition of the while loop of Game.turn
CanAct ==
    /\ pc = "turn"
    /\ player[Actor].number_of_actions # 0
    /\ IsAlive(player, Actor)

World == [pl |-> player, fp |-> field_players]
KeyState == [kl |-> key_location, hk |-> field_has_key]

\* Game.__init__: a board with the key on KEY_FIELD, nothing burning, no players
Constructed ==
    /\ pc = "creating_game"
    /\ players = << >>
    /\ player = << >>
    /\ snapshot = << >>
    /\ idx = 0
    /\ field_players = EmptyWorld.fp
    /\ field_has_key = CreateKey(KEY_FIELD).hk
    /\ key_location = CreateKey(KEY_FIELD).kl
    /\ is_fire = CreateFire({})
    /\ burning_fields = {}
    /\ last_cmd = "none"
    /\ last_target = NoField

\* the process starts with no save.json or with one of the snapshots above
Init ==
    /\ Constructed
    /\ round = 0
    /\ \/ save_file = {} /\ left_orange = << >> /\ saver = 0
       \/ \E s \in InitialSaves :
            /\ save_file = {s.save}
            /\ left_orange = s.left
            /\ saver = s.save.players[1].name

\* Game.loop entered after creating_game: the first roster copy, or the end
\* of the game when there are no players
EnterLoop(roster) ==
    /\ pc' = IF roster # << >> THEN "turn" ELSE "done"
    /\ snapshot' = roster
    /\ idx' = IF roster # << >> THEN 1 ELSE 0

\* creating_game -> new_game with n heroes; save.json is emptied
NewGame(n) ==
    /\ pc = "creating_game"
    /\ LET w == CreatePlayers(EmptyWorld, 1, n)
           roster == [i \in 1 .. n |-> i]
       IN  /\ players' = roster
           /\ player' = w.pl
           /\ field_players' = w.fp
           /\ EnterLoop(roster)
    /\ field_has_key' = CreateKey(KEY_FIELD).hk
    /\ key_location' = CreateKey(KEY_FIELD).kl
    /\ is_fire' = CreateFire({})
    /\ burning_fields' = {}
    /\ save_file' = {}
    /\ round' = 0
    /\ left_orange' = [i \in 1 .. n |-> {}]
    /\ saver' = 0
    /\ UNCHANGED <<last_cmd, last_target>>

\* creating_game -> load_game of the snapshot in save.json; save.json is emptied
LoadGame ==
    /\ pc = "creating_game"
    /\ save_file # {}
    /\ LET g == LoadGameState(CHOOSE s \in save_file : TRUE)
       IN  /\ players' = g.players
           /\ player' = g.player
           /\ field_players' = g.field_players
           /\ field_has_key' = g.k.hk
           /\ key_location' = g.k.kl
           /\ is_fire' = g.is_fire
           /\ burning_fields' = g.burning_fields
           /\ EnterLoop(g.players)
    /\ save_file' = {}
    /\ UNCHANGED <<round, last_cmd, last_target, saver, left_orange>>

\* the field self.board[pos_x + dx, pos_y + dy] of Game.turn
Target(pos, d) ==
    <<WrapIndex(pos[1] + MoveDirections[d][1], Height),
      WrapIndex(pos[2] + MoveDirections[d][2], Width)>>

TargetOk(pos, d) ==
    /\ IndexOk(pos[1] + MoveDirections[d][1], Height)
    /\ IndexOk(pos[2] + MoveDirections[d][2], Width)

\* what a move onto target turns out to be, for last_cmd
MoveKind(pl, p, target) ==
    IF IsRetreat(pl, p, target) THEN "retreat"
    ELSE IF ~IsAvailable(target) THEN "wall" ELSE "move"

\* a move command of Game.turn
Move(d) ==
    /\ CanAct
    /\ LET p == Actor
           cur == player[p].current_field
       IN  IF ~TargetOk(cur, d)
           THEN /\ pc' = "crashed"
                /\ UNCHANGED <<players, player, snapshot, idx, field_players,
                               left_orange>>
                /\ last_cmd' = "move"
                /\ last_target' = NoField
           ELSE LET target == Target(cur, d)
                    w == MovePlayer(World, p, target, is_fire)
                IN  /\ player' = w.pl
                    /\ field_players' = w.fp
                    /\ last_cmd' = MoveKind(player, p, target)
                    /\ last_target' = target
                    /\ left_orange' =
                         IF w.pl[p].current_field # cur /\ cur \in ORANGE_FIELDS
                         THEN [left_orange EXCEPT ![player[p].name] = @ \cup {cur}]
                         ELSE left_orange
                    /\ UNCHANGED <<pc, players, snapshot, idx>>
    /\ saver' = 0
    /\ UNCHANGED <<field_has_key, is_fire, key_location, burning_fields,
                   save_file, round>>

\* the command "ударить"
Strike ==
    /\ CanAct
    /\ player' = StrikeAllInTheField(player, field_players, Actor)
    /\ last_cmd' = IF player' # player THEN "strike" ELSE "noop"
    /\ last_target' = NoField
    /\ saver' = 0
    /\ UNCHANGED <<pc, players, snapshot, idx, field_players, field_has_key,
                   is_fire, key_location, burning_fields, save_file, round,
                   left_orange>>

\* the command "взять"
TakeKey ==
    /\ CanAct
    /\ LET t == TakeKeyPlayer(player, KeyState, Actor)
       IN  /\ player' = t.pl
           /\ field_has_key' = t.k.hk
           /\ key_location' = t.k.kl
    /\ last_cmd' = IF player' # player THEN "take" ELSE "noop"
    /\ last_target' = NoField
    /\ saver' = 0
    /\ UNCHANGED <<pc, players, snapshot, idx, field_players, is_fire,
                   burning_fields, save_file, round, left_orange>>

\* the command "лечить"
Heal ==
    /\ CanAct
    /\ player' = HealPlayer(player, Actor)
    /\ last_cmd' = IF player' # player THEN "heal" ELSE "noop"
    /\ last_target' = NoField
    /\ saver' = 0
    /\ UNCHANGED <<pc, players, snapshot, idx, field_players, field_has_key,
                   is_fire, key_location, burning_fields, save_file, round,
                   left_orange>>

\* any other input: "Не понял Ваши намерения..."
Unrecognized ==
    /\ CanAct
    /\ last_cmd' = "unknown"
    /\ last_target' = NoField
    /\ saver' = 0
    /\ UNCHANGED <<pc, players, player, snapshot, idx, field_players,
                   field_has_key, is_fire, key_location, burning_fields,
                   save_file, round, left_orange>>

\* the command "сохранить": Game.save writes save.json and exits
Save ==
    /\ CanAct
    /\ save_file' = {GameToJson(players, player, burning_fields, key_location)}
    /\ pc' = "exited"
    /\ last_cmd' = "save"
    /\ last_target' = NoField
    /\ saver' = player[Actor].name
    /\ UNCHANGED <<players, player, snapshot, idx, field_players, field_has_key,
                   is_fire, key_location, burning_fields, round, left_orange>>

\* the program is run again after a save: Game.__init__ of the new process
Restart ==
    /\ pc = "exited"
    /\ pc' = "creating_game"
    /\ players' = << >>
    /\ player' = << >>
    /\ snapshot' = << >>
    /\ idx' = 0
    /\ field_players' = EmptyWorld.fp
    /\ field_has_key' = CreateKey(KEY_FIELD).hk
    /\ key_location' = CreateKey(KEY_FIELD).kl
    /\ is_fire' = CreateFire({})
    /\ burning_fields' = {}
    /\ last_cmd' = "none"
    /\ last_target' = NoField
    /\ UNCHANGED saver
    /\ UNCHANGED <<save_file, round, left_orange>>

\* Game.destroy, on the roster, the world and the key state
Destroy(roster, w, k, p) ==
    LET dropped == DropKey(w.pl, k, p)
    IN  [players |-> Remove(roster, p),
         pl |-> dropped.pl,
         fp |-> PlayerLeaves(w.fp, p, w.pl[p].current_field),
         k |-> dropped.k]

\* the `if not player.is_alive` of Game.turn: whether the player is destroyed
MustDestroy(pl, p) == ~IsAlive(pl, p)

\* variant: the for loop goes on after a winner's turn
LoopAfterTurnNoReturn(won, i, n) ==
    IF i < n THEN [pc |-> "turn", idx |-> i + 1]
    ELSE [pc |-> "end_of_round", idx |-> i]

\* the for loop of Game.loop after turn(player) of the i-th of n players:
\* return on a win, else the next player, else end_of_round
LoopAfterTurn(won, i, n) ==
    IF won THEN [pc |-> "done", idx |-> i]
    ELSE IF i < n THEN [pc |-> "turn", idx |-> i + 1]
    ELSE [pc |-> "end_of_round", idx |-> i]

\* the end of Game.turn once the while loop is left, and the step of the for
\* loop of Game.loop that follows it
TurnEnd ==
    /\ pc = "turn"
    /\ ~CanAct
    /\ LET p == Actor
           d == IF MustDestroy(player, p)
                THEN Destroy(players, World, KeyState, p)
                ELSE [players |-> players, pl |-> player, fp |-> field_players,
                      k |-> KeyState]
       IN  /\ players' = d.players
           /\ player' = d.pl
           /\ field_players' = d.fp
           /\ field_has_key' = d.k.hk
           /\ key_location' = d.k.kl
           /\ pc' = LoopAfterTurn(player[p].is_win, idx, Len(snapshot)).pc
           /\ idx' = LoopAfterTurn(player[p].is_win, idx, Len(snapshot)).idx
    /\ last_cmd' = "none"
    /\ last_target' = NoField
    /\ UNCHANGED saver
    /\ UNCHANGED <<snapshot, is_fire, burning_fields, save_file, round, left_orange>>

\* variant: the action budgets are left as the round ended
ResetActionsKeep(pl, roster) == pl

\* Game.end_of_round: the action budgets
ResetActions(pl, roster) ==
    [p \in DOMAIN pl |->
        IF Contains(roster, p) THEN [pl[p] EXCEPT !.number_of_actions = 1] ELSE pl[p]]

\* Game.end_of_round with the fire drawn from draws, then the `while
\* self.players` test of Game.loop; at most limit calls are followed
EndOfRound(draws, limit) ==
    /\ pc = "end_of_round"
    /\ round < limit
    /\ \E draw \in draws :
         /\ burning_fields' = draw
         /\ is_fire' = Burn(is_fire, draw)
    /\ player' = ResetActions(player, players)
    /\ round' = round + 1
    /\ EnterLoop(players)
    /\ UNCHANGED <<players, field_players, field_has_key, key_location,
                   save_file, last_cmd, last_target, saver, left_orange>>

Next ==
    \/ \E n \in 0 .. MaxPlayers : NewGame(n)
    \/ LoadGame
    \/ \E d \in Directions : Move(d)
    \/ Strike
    \/ TakeKey
    \/ Heal
    \/ Unrecognized
    \/ Save
    \/ Restart
    \/ TurnEnd
    \/ EndOfRound(SampleDraws, MaxRounds)

Spec == Init /\ [][Next]_vars

\* The process starts with the snapshot AtKeyDoor in save.json (loaded, or
\* discarded for a new game of one hero); the fire is drawn from every draw
\* np.random.choice can return.
InitAllDraws ==
    /\ Constructed
    /\ round = 0
    /\ save_file = {AtKeyDoor.save}
    /\ left_orange = AtKeyDoor.left
    /\ saver = AtKeyDoor.save.players[1].name

NextAllDraws ==
    \/ NewGame(1)
    \/ LoadGame
    \/ \E d \in Directions : Move(d)
    \/ Strike
    \/ TakeKey
    \/ Heal
    \/ Unrecognized
    \/ Save
    \/ Restart
    \/ TurnEnd
    \/ EndOfRound(AllDraws, MaxRoundsAllDraws)

SpecAllDraws == InitAllDraws /\ [][NextAllDraws]_vars

\* Games played to their end: a new game of one hero or the loaded snapshot
\* BeforeGolem of two; every command a living player gives takes effect (no
\* unrecognized or failed command, no save), and the process keeps running
\* while a step of the game is possible.
InitLive ==
    /\ Constructed
    /\ round = 0
    /\ save_file = {BeforeGolem.save}
    /\ left_orange = BeforeGolem.left
    /\ saver = BeforeGolem.save.players[1].name

\* the draws followed in these games
LiveDraws ==
    { { <<4, 1>>, <<4, 2>>, <<3, 2>>, <<3, 3>> },
      { <<1, 8>>, <<1, 7>>, <<3, 4>>, <<3, 6>> } }

\* the command "ударить" with somebody to strike
StrikeHit == Strike /\ player' # player

\* the command "взять" on the field with the key
TakeKeyFound == TakeKey /\ player' # player

\* the command "лечить" with medicine left
HealUsed == Heal /\ player' # player

NextLive ==
    \/ NewGame(1)
    \/ LoadGame
    \/ \E d \in Directions : Move(d)
    \/ StrikeHit
    \/ TakeKeyFound
    \/ HealUsed
    \/ TurnEnd
    \/ EndOfRound(LiveDraws, MaxRoundsLive)

SpecLive == InitLive /\ [][NextLive]_vars /\ WF_vars(NextLive)

\* ================================================================= claims
\* the frame of a move: what no move command touches
MoveFrame ==
    UNCHANGED <<pc, players, snapshot, idx, field_has_key, is_fire,
                key_location, burning_fields, save_file, round>>

\* C1: a move onto a field of the mover's previous_fields kills the mover and
\* sets its escape flag; no effect of the field is applied (the win flag and
\* every other player are untouched), and the mover's current field, its
\* previous_fields and every field's occupants stay as they were, whatever
\* the class or colour of the field.
C1_RetreatStep ==
    \A d \in Directions :
        LET p == Actor
            cur == player[p].current_field
        IN  (CanAct /\ Move(d) /\ TargetOk(cur, d)
               /\ Contains(player[p].previous_fields, Target(cur, d)))
            => /\ player'[p].health = 0
               /\ player'[p].is_escaped
               /\ player'[p].is_win = player[p].is_win
               /\ player'[p].current_field = cur
               /\ player'[p].previous_fields = player[p].previous_fields
               /\ player'[p].has_key = player[p].has_key
               /\ player'[p].number_of_medicine = player[p].number_of_medicine
               /\ \A q \in DOMAIN player \ {p} : player'[q] = player[q]
               /\ field_players' = field_players

C1_Retreat == [][C1_RetreatStep]_vars

\* C1 witness: a hero has just died fleeing onto the orange altar it had left
C1_Witness ==
    /\ pc = "turn"
    /\ last_cmd = "retreat"
    /\ player[Actor].is_escaped
    /\ player[Actor].health = 0
    /\ last_target \in ORANGE_FIELDS
    /\ Symbol(last_target) = "a"
    /\ player[Actor].current_field # last_target

\* C2: a move onto a Wall costs the mover exactly one health and one action
\* and changes nothing else: not its current field, not its previous_fields,
\* no field's occupants; from a fresh game the hero at (4,1) with health 5
\* that moves left has health 4 and is still at (4,1).
C2_WallStep ==
    \A d \in Directions :
        LET p == Actor
            cur == player[p].current_field
        IN  (CanAct /\ Move(d) /\ TargetOk(cur, d)
               /\ Symbol(Target(cur, d)) = "w")
            => /\ player' = [player EXCEPT ![p].health = @ - 1,
                                           ![p].number_of_actions = @ - 1]
               /\ field_players' = field_players
               /\ \A pos \in Positions : Symbol(pos) = "w" => field_players'[pos] = << >>
               /\ MoveFrame
               /\ (cur = START_FIELD /\ d = "left" /\ player[p].health = MAX_HEALTH)
                    => (player'[p].health = 4 /\ player'[p].current_field = <<4, 1>>)

C2_WallBounce == [][C2_WallStep]_vars

\* C2 witness: in a fresh game the first hero has run into the wall left of
\* the start field
C2_Witness ==
    /\ pc = "turn"
    /\ last_cmd = "wall"
    /\ round = 0
    /\ player[Actor].current_field = START_FIELD
    /\ player[Actor].health = 4
    /\ player[Actor].number_of_medicine = NUMBER_OF_MEDICINE
    /\ player[Actor].number_of_actions = 0

\* the fields whose is_fire flag is set
Burning == {pos \in Positions : is_fire[pos]}

\* C3: after every end_of_round the burning set is 4 distinct white fields,
\* exactly those fields have is_fire set and every other field has not;
\* in every state 0 or 4 fields burn and no orange, Wall or Empty field burns.
C3_BurnStep ==
    (pc = "end_of_round" /\ round' = round + 1)
    => /\ Cardinality(burning_fields') = 4
       /\ burning_fields' \subseteq WhiteFields
       /\ {pos \in Positions : is_fire'[pos]} = burning_fields'

C3_FireState ==
    /\ Cardinality(Burning) \in {0, 4}
    /\ Burning = burning_fields
    /\ \A pos \in Burning :
         pos \notin ORANGE_FIELDS /\ Symbol(pos) \notin {"w", "e"}

C3_FireDraw == [][C3_BurnStep]_vars /\ []C3_FireState

\* C3 witness: a draw that is none of SampleDraws has replaced the fire the
\* game was loaded with, one field of which burns on
C3_Witness ==
    /\ round = 1
    /\ pc = "turn"
    /\ burning_fields = { <<1, 8>>, <<3, 2>>, <<4, 4>>, <<4, 6>> }
    /\ Burning = burning_fields
    /\ player[Actor].current_field = KEY_FIELD

\* the fields that hold the key, and the players that hold it
KeyFields == {pos \in Positions : field_has_key[pos]}
KeyHolders == {p \in DOMAIN player : player[p].has_key}

\* C4: at most one field holds the key; key_location is that field's position
\* and None when no field holds it; the key is never on a field and with a
\* player at once, nor with two players.
C4_KeyTracking ==
    /\ Cardinality(KeyFields) <= 1
    /\ \A pos \in KeyFields : key_location = pos
    /\ KeyFields = {} => key_location = NoField
    /\ Cardinality(KeyHolders) <= 1
    /\ ~(KeyFields # {} /\ KeyHolders # {})

\* C4 witness: a hero that carried the key has died and been removed, and the
\* key lies on the field it stood on
C4_Witness ==
    /\ key_location \notin {NoField, KEY_FIELD}
    /\ field_has_key[key_location]
    /\ KeyHolders = {}
    /\ \E p \in DOMAIN player : ~Contains(players, p) /\ player[p].health <= 0
                                  /\ player[p].current_field = key_location

\* C5: a hero that enters the Golem field takes the fire damage of the field
\* first; with the key its win flag is set and its health is its health before
\* the move less that damage; without the key its health is 0 and its win
\* flag stays false.
C5_GolemStep ==
    \A d \in Directions :
        LET p == Actor
            cur == player[p].current_field
            target == Target(cur, d)
            damage == IF is_fire[target] THEN 1 ELSE 0
        IN  (CanAct /\ Move(d) /\ TargetOk(cur, d) /\ Symbol(target) = "g"
               /\ ~Contains(player[p].previous_fields, target))
            => /\ player'[p].current_field = target
               /\ IF player[p].has_key
                  THEN /\ player'[p].is_win
                       /\ player'[p].health = player[p].health - damage
                  ELSE /\ ~player'[p].is_win
                       /\ player'[p].health = 0

C5_Golem == [][C5_GolemStep]_vars

\* C5 witness: a hero has walked onto the burning Golem field with the key
C5_Witness ==
    /\ pc = "turn"
    /\ last_cmd = "move"
    /\ Symbol(player[Actor].current_field) = "g"
    /\ is_fire[player[Actor].current_field]
    /\ player[Actor].is_win
    /\ player[Actor].health = 1

\* the elements of a list
Range(seq) == {seq[i] : i \in 1 .. Len(seq)}

\* the fields of a Player object that Player.to_json writes
Saved(r) ==
    <<r.name, r.health, r.previous_fields, r.current_field,
      r.number_of_actions, r.number_of_medicine, r.has_key>>

\* C6: at the moment of a save, load_game of the written snapshot rebuilds the
\* same roster in the same order with the same name, health, previous_fields,
\* current field, action budget, medicine count and key flag for every
\* player, the same occupants on every field, the same key location and the
\* same burning fields.
C6_RoundTrip ==
    pc = "exited" =>
        \A save \in save_file :
            LET g == LoadGameState(save)
            IN  /\ Len(g.players) = Len(players)
                /\ \A i \in 1 .. Len(players) :
                     Saved(g.player[g.players[i]]) = Saved(player[players[i]])
                /\ \A pos \in Positions :
                     {g.player[q].name : q \in Range(g.field_players[pos])}
                       = {player[q].name : q \in Range(field_players[pos])}
                /\ g.k.kl = key_location
                /\ g.k.hk = field_has_key
                /\ g.burning_fields = burning_fields
                /\ g.is_fire = is_fire

\* C6 witness: a save was written while a hero that carries the key remembers
\* two previous fields and fields burn
C6_Witness ==
    /\ pc = "exited"
    /\ save_file # {}
    /\ burning_fields # {}
    /\ \E p \in Range(players) : Len(player[p].previous_fields) = 2
    /\ \E p \in Range(players) : player[p].has_key

\* C7: every player of the roster has a health in 0 .. MAX_HEALTH
C7_HealthRange ==
    \A p \in Range(players) :
        player[p].health >= 0 /\ player[p].health <= MAX_HEALTH

\* C8: an orange field in the previous_fields of a player stays there for as
\* long as the player is in the game
C8_OrangeStep ==
    \A p \in Range(players) \cap Range(players') :
        \A pos \in ORANGE_FIELDS :
            Contains(player[p].previous_fields, pos)
              => Contains(player'[p].previous_fields, pos)

C8_OrangePermanent == [][C8_OrangeStep]_vars

\* C9: no player of the roster stands on an orange field it has stood on and
\* left before, and every move onto such a field ends in retreat death with
\* the mover where it was.
C9_State ==
    \A p \in Range(players) :
        player[p].current_field \notin left_orange[player[p].name]

C9_Step ==
    \A d \in Directions :
        LET p == Actor
            cur == player[p].current_field
        IN  (CanAct /\ Move(d) /\ TargetOk(cur, d)
               /\ Target(cur, d) \in left_orange[player[p].name])
            => /\ player'[p].health = 0
               /\ player'[p].is_escaped
               /\ player'[p].current_field = cur

C9_OrangeOnce == [][C9_Step]_vars /\ []C9_State

\* C9 witness: a hero that left the key field (2,3) tried to step onto it again
C9_Witness ==
    /\ pc = "turn"
    /\ last_cmd = "retreat"
    /\ last_target = <<2, 3>>
    /\ last_target \in left_orange[player[Actor].name]
    /\ player[Actor].current_field = <<3, 3>>

\* C10: a player whose win flag is set is alive, is still in the roster and on
\* its field, and still holds the key
C10_WinnerStays ==
    \A p \in DOMAIN player :
        player[p].is_win =>
            /\ player[p].health > 0
            /\ Contains(players, p)
            /\ Contains(field_players[player[p].current_field], p)
            /\ player[p].has_key

\* the state of the game, without the history variables
GameState ==
    <<pc, players, player, snapshot, idx, field_players, field_has_key, is_fire,
      key_location, burning_fields, save_file, round>>

\* the players other than p that are registered on p's current field
Others(p) == Range(field_players[player[p].current_field]) \ {p}

\* C11: a heal with no medicine, a strike with no other player on the actor's
\* field, a take-key on a field without the key and an unrecognized command
\* leave the whole game state unchanged, the actor's action budget included,
\* so the same player is asked again.
C11_Step ==
    /\ (Heal /\ player[Actor].number_of_medicine = 0) => UNCHANGED GameState
    /\ (Strike /\ Others(Actor) = {}) => UNCHANGED GameState
    /\ (TakeKey /\ ~field_has_key[player[Actor].current_field])
         => UNCHANGED GameState
    /\ Unrecognized => UNCHANGED GameState

C11_NoOps == [][C11_Step]_vars

\* C11 witness: a command has just failed for a hero that has no medicine, is
\* alone on a field without the key, and is asked again
C11_Witness ==
    /\ CanAct
    /\ last_cmd = "noop"
    /\ player[Actor].number_of_medicine = 0
    /\ Others(Actor) = {}
    /\ ~field_has_key[player[Actor].current_field]
    /\ player[Actor].number_of_actions = 1

\* C12: the turn of a player whose win flag is set ends the game at once, and
\* nothing happens in a game that is over: no later player of the round gets
\* a turn, no command is applied, no budget is reset and no fire is drawn.
C12_Step ==
    /\ pc # "done"
    /\ (TurnEnd /\ player[Actor].is_win)
         => /\ pc' = "done"
            /\ UNCHANGED <<snapshot, idx, is_fire, burning_fields, round>>
            /\ \A q \in DOMAIN player :
                 player'[q].number_of_actions = player[q].number_of_actions

C12_WinEndsGame == [][C12_Step]_vars

\* C12 witness: the game is over with a winner while the second hero of the
\* round has had no turn
C12_Witness ==
    /\ pc = "done"
    /\ idx < Len(snapshot)
    /\ player[snapshot[idx]].is_win
    /\ player[snapshot[idx]].number_of_actions = 0
    /\ player[snapshot[idx + 1]].number_of_actions = 1

\* a command that took effect: a move of any outcome, or a strike, take-key
\* or heal that succeeded
Effectful ==
    \/ \E d \in Directions : Move(d) /\ TargetOk(player[Actor].current_field, d)
    \/ (Strike \/ TakeKey \/ Heal) /\ player' # player

\* C13: a round walks once through the roster copy taken at its start, in
\* order; an effectful command uses up the budget of 1 and ends the turn; the
\* budgets are reset to 1 and the fire is redrawn only by end_of_round, after
\* the last turn of the round, once; a budget is always 0 or 1.
C13_State ==
    /\ \A p \in DOMAIN player : player[p].number_of_actions \in {0, 1}
    /\ pc = "turn" => idx \in 1 .. Len(snapshot)

C13_Step ==
    /\ Effectful
         => /\ player[Actor].number_of_actions = 1
            /\ player'[Actor].number_of_actions = 0
            /\ pc' = "turn" /\ ~CanAct'
            /\ UNCHANGED <<snapshot, idx>>
    /\ pc = "turn"
         => /\ UNCHANGED <<snapshot, is_fire, burning_fields, round>>
            /\ \A q \in DOMAIN player :
                 player'[q].number_of_actions <= player[q].number_of_actions
            /\ idx' # idx => TurnEnd /\ idx' = idx + 1 /\ pc' = "turn"
            /\ pc' = "end_of_round"
                 => TurnEnd /\ idx = Len(snapshot) /\ ~player[Actor].is_win
    /\ pc = "end_of_round"
         => /\ round' = round + 1
            /\ Cardinality(burning_fields') = BURN_SIZE
            /\ \A q \in Range(players) : player'[q].number_of_actions = 1
            /\ UNCHANGED players
            /\ snapshot' = players
            /\ IF players = << >> THEN pc' = "done" ELSE pc' = "turn" /\ idx' = 1

C13_RoundStructure == [][C13_Step]_vars /\ []C13_State

\* C13 witness: in the second round of a game of two the first hero has used
\* its budget and the second is asked for its command
C13_Witness ==
    /\ round = 1
    /\ CanAct
    /\ Len(snapshot) = 2 /\ idx = 2
    /\ player[snapshot[1]].number_of_actions = 0
    /\ player[snapshot[1]].health > 0
    /\ player[snapshot[2]].number_of_actions = 1

\* every player registered on some field
Occupants == UNION {Range(field_players[pos]) : pos \in Positions}

\* C14: while a player is asked for a command, no other player with health 0
\* or less is in the roster or on a field.
C14_RemovedOnDeath ==
    CanAct =>
        \A q \in (Range(players) \cup Occupants) \ {Actor} : player[q].health > 0

\* C15: a player whose health is 0 or less gets no command and its health
\* never rises again; its turn only removes it: a held key is put on the
\* field it stands on, which is then the one field with the key, the player
\* leaves that field's occupants and the roster, and nothing else changes.
C15_Step ==
    /\ pc \in {"turn", "end_of_round"}
         => \A q \in DOMAIN player :
              player[q].health <= 0 => player'[q].health <= 0
    /\ (pc = "turn" /\ player[Actor].health <= 0)
         => LET p == Actor
                cur == player[p].current_field
            IN  /\ TurnEnd
                /\ ~Contains(players', p)
                /\ \A pos \in Positions : ~Contains(field_players'[pos], p)
                /\ \A q \in DOMAIN player \ {p} : player'[q] = player[q]
                /\ \A q \in Range(players) \ {p} : Contains(players', q)
                /\ player'[p] = [player[p] EXCEPT !.has_key = FALSE]
                /\ IF player[p].has_key
                   THEN /\ key_location' = cur
                        /\ KeyFields' = {cur}
                        /\ IsAvailable(cur)
                   ELSE UNCHANGED <<key_location, field_has_key>>

C15_DeadRemoved == [][C15_Step]_vars

\* C15 witness: the key holder died at (1,7) without retreating or winning
\* (the wall above it, or a strike) and its turn has removed it: the key lies
\* on (1,7) and the other hero plays on
C15_Witness ==
    /\ pc = "turn"
    /\ \E p \in DOMAIN player :
         /\ ~Contains(players, p)
         /\ p \notin Occupants
         /\ player[p].health = 0
         /\ ~player[p].is_escaped /\ ~player[p].is_win
         /\ player[p].current_field = <<1, 7>>
    /\ key_location = <<1, 7>>
    /\ KeyFields = { <<1, 7>> }
    /\ KeyHolders = {}
    /\ players # << >>

\* C16: a successful move from A onto an available field B replaces the one
\* remembered white field by A when A and B are white (the orange entries
\* stay), appends A when B is white and A is orange, and leaves the list alone
\* when B is not white; a list holds at most one white field and never the
\* player's current field.
C16_State ==
    \A p \in Range(players) :
        /\ Cardinality(Range(player[p].previous_fields) \cap WhiteFields) <= 1
        /\ ~Contains(player[p].previous_fields, player[p].current_field)

C16_Step ==
    \A d \in Directions :
        LET p == Actor
            A == player[p].current_field
            B == Target(A, d)
            prev == player[p].previous_fields
        IN  (Move(d) /\ TargetOk(A, d) /\ ~IsRetreat(player, p, B) /\ IsAvailable(B))
            => /\ player'[p].current_field = B
               /\ IF IsWhite(B) /\ IsWhite(A)
                  THEN Range(player'[p].previous_fields)
                         = (Range(prev) \ WhiteFields) \cup {A}
                  ELSE IF IsWhite(B)
                       THEN player'[p].previous_fields = Append(prev, A)
                       ELSE player'[p].previous_fields = prev

C16_Bookkeeping == [][C16_Step]_vars /\ []C16_State

\* C17: a strike with another player on the striker's field takes exactly 1
\* health from every other occupant of that field, dead ones included, and
\* one action from the striker, and changes nothing else: not the striker's
\* health, not the players on other fields, no position, list, key flag,
\* medicine count, and nothing of the board.
C17_Step ==
    (Strike /\ Others(Actor) # {})
    => /\ \A q \in Others(Actor) :
            player'[q] = [player[q] EXCEPT !.health = @ - 1]
       /\ player'[Actor] = [player[Actor] EXCEPT !.number_of_actions = @ - 1]
       /\ player[Actor].number_of_actions = 1
       /\ \A q \in DOMAIN player \ (Others(Actor) \cup {Actor}) :
            player'[q] = player[q]
       /\ UNCHANGED <<pc, players, snapshot, idx, field_players, field_has_key,
                      is_fire, key_location, burning_fields, save_file, round>>

C17_Strike == [][C17_Step]_vars

\* C17 witness: a strike has hit two occupants, one of them already dead, and
\* has killed the other
C17_Witness ==
    /\ pc = "turn"
    /\ last_cmd = "strike"
    /\ Cardinality(Others(Actor)) = 2
    /\ \E q \in Others(Actor) : player[q].health = -1
    /\ \E q \in Others(Actor) : player[q].health = 0
    /\ player[Actor].health = 1
    /\ player[Actor].number_of_actions = 0

\* how often p occurs in a list
Count(seq, p) == Cardinality({i \in 1 .. Len(seq) : seq[i] = p})

\* C18: every player of the roster is registered exactly once on its current
\* field and on no other field; every occupant of a field is a roster player
\* standing on that field; a Wall has no occupants.
C18_Occupancy ==
    /\ \A p \in Range(players) :
         \A pos \in Positions :
            Count(field_players[pos], p)
              = IF pos = player[p].current_field THEN 1 ELSE 0
    /\ \A pos \in Positions :
         \A q \in Range(field_players[pos]) :
            Contains(players, q) /\ player[q].current_field = pos
    /\ \A pos \in Positions : ~IsAvailable(pos) => field_players[pos] = << >>

\* C18 witness: after one hero was removed, the other has moved on, retreated
\* or hit a wall
C18_Witness ==
    /\ pc = "turn"
    /\ last_cmd \in {"move", "wall", "retreat"}
    /\ Len(players) = 1
    /\ \E p \in DOMAIN player : ~Contains(players, p)
    /\ player[Actor].current_field # START_FIELD

\* the fields one move away from a field of S that can be entered
OneMove(S) ==
    UNION {{Target(pos, d) : d \in {e \in Directions : TargetOk(pos, e)}} : pos \in S}

\* every field a walk from START_FIELD over available fields can reach,
\* whatever the retreat rule allows
RECURSIVE Closure(_)
Closure(S) ==
    LET T == S \cup {pos \in OneMove(S) : IsAvailable(pos)}
    IN  IF T = S THEN S ELSE Closure(T)

ReachableFields == Closure({START_FIELD})

\* not on the outer row or column of the grid
Interior(pos) ==
    /\ pos[1] \in 1 .. Height - 2
    /\ pos[2] \in 1 .. Width - 2

\* C19: every player stands on a field that a walk from the start can reach;
\* all these fields are Open, Altar or Golem fields off the outer row and
\* column, so every move targets a field of the grid and no move ever asks
\* for a field beyond it.
C19_Confined ==
    /\ \A p \in Range(players) : player[p].current_field \in ReachableFields
    /\ \A pos \in ReachableFields :
         /\ Symbol(pos) \in {"f", "a", "g"}
         /\ Interior(pos)
         /\ \A d \in Directions : TargetOk(pos, d) /\ Target(pos, d) \in Positions
    /\ pc # "crashed"

\* C19 witness: a hero next to the top row has run into the outer wall
C19_Witness ==
    /\ pc = "turn"
    /\ last_cmd = "wall"
    /\ last_target = <<0, 7>>
    /\ player[Actor].current_field = <<1, 7>>

\* the game is over: Game.loop has returned
Ended == pc = "done" /\ (players = << >> \/ \E p \in DOMAIN player : player[p].is_win)

\* C20: when every command of a living player takes effect, every game ends,
\* with an empty roster or with a winner.
C20_Terminates == <>Ended

\* C20 witness: a new game has ended with a living winner, who walked from the
\* start to the key and on to the Golem
C20_Witness ==
    /\ Ended
    /\ round >= 13
    /\ Len(players) = 1
    /\ \E p \in Range(players) : player[p].is_win /\ player[p].health > 0

\* C21: a loaded game goes on where the saved one stopped: from the load to
\* the first command nobody leaves the roster or a field and no key moves,
\* and that command is asked of the hero that saved.
C21_State ==
    (saver # 0 /\ CanAct) => player[Actor].name = saver

C21_Step ==
    (saver # 0 /\ pc = "turn" /\ TurnEnd)
    => /\ UNCHANGED <<players, field_players, field_has_key, key_location>>
       /\ \A q \in DOMAIN player : player'[q] = player[q]
       /\ pc' = "turn"

C21_Resume == [][C21_Step]_vars /\ []C21_State
====
